---------------------------- MODULE Spec2Model ----------------------------
(***************************************************************************)
(* Transaction submission and confirmation protocol of the RPC client      *)
(* (solana/rpc/api.py): Client.send_transaction, Client.send_raw_transaction*)
(* and Client.confirm_transaction, with the blockhash cache they share.    *)
(*                                                                         *)
(* Time is counted in ticks of half a second, the default poll interval of *)
(* confirm_transaction, so that every duration of the code is an integer.  *)
(* The origin of time() is arbitrary and the code only compares            *)
(* differences of times, so the clock is read from the start of the        *)
(* current call: between two calls the origin is moved to the present and  *)
(* the insertion times held by the cache are moved with it.                *)
(* The transport is the environment: each request is answered by a         *)
(* response chosen nondeterministically.                                   *)
(***************************************************************************)
EXTENDS Integers, Sequences, FiniteSets, TLC

\* ------------------------------------------------------------------ bounds
MaxCalls == 2
MaxLvbh == 1
MaxPolls == 3
MaxCallers == 2
MaxSize == 2
Ttl == 3
LongSleep == 25

\* ------------------------------------------------------- program constants
TicksPerSecond == 2
TimeoutSeconds == 30
RequestTimeoutSeconds == 10
DefaultSleep == 1

\* ------------------------------------------------------------ value spaces
Commitment == {"processed", "confirmed", "finalized"}
Finalized == "finalized"
NoCommitment == "none"

COMMITMENT_RANKS ==
    [c \in Commitment |->
        CASE c = "processed" -> 0
          [] c = "confirmed" -> 1
          [] c = "finalized" -> 2]

Hashes == {"H1", "H2"}
NoHash == "none"
\* What get_fee_for_message may be handed: a compiled Message, or a
\* Transaction that was not compiled.
MessageArgs == {"Message", "Transaction"}
NoMessage == "none"

\* The call sites that share one client.
Callers == 1 .. MaxCallers
\* The blockhashes an application may put in a cache of its own.
CacheHashes == Hashes \cup {"H3", "H4"}

\* Optional[int] None, below every block height.
NoHeight == 0 - 1
LvbhChoices == {NoHeight} \cup (0 .. MaxLvbh)
Heights == 0 .. (MaxLvbh + 1)
NetworkLvbh == 1 .. MaxLvbh

\* A get_signature_statuses response: the request-level error, and of
\* resp["result"]["value"][0], which is null or a status, its
\* confirmationStatus and whether its err field reports a failed
\* transaction.
StatusValues == {"null"} \cup Commitment
StatusResponses ==
    {r \in [error : BOOLEAN, value : StatusValues, err : BOOLEAN] :
        r.value = "null" => ~r.err}
Unbound == [error |-> FALSE, value |-> "unbound", err |-> FALSE]
\* The responses whose status is not that of a failed transaction.
Succeeded == {r \in StatusResponses : ~r.err}

\* The poller of a second run of the same call, given the same responses
\* but for the err field of their statuses: its state, its polls, and the
\* err field it saw last.
NoTwin == [state |-> "NONE", polls |-> 0, err |-> FALSE]

\* types.TxOpts, and opts = None.
TxOpts == [skip_confirmation : BOOLEAN,
           preflight_commitment : Commitment,
           last_valid_block_height : LvbhChoices]
NoOpts == [none |-> TRUE]

SleepChoices == {DefaultSleep, LongSleep}
\* A request is answered at once or takes up to the provider's timeout.
MaxLatency == RequestTimeoutSeconds * TicksPerSecond
Latencies == {0, MaxLatency}

\* The requests, sleeps and cache operations of one call: sendTransaction
\* requests, status polls, block height reads, sleeps, getLatestBlockhash
\* requests (refresh: those made after dispatch), cache gets and sets.
ZeroCount == [send |-> 0, status |-> 0, height |-> 0, sleep |-> 0,
              fetch |-> 0, refresh |-> 0, get |-> 0, set |-> 0, fee |-> 0]
NoGet == [called |-> FALSE, hit |-> FALSE, blockhash |-> NoHash]
NoFetch == [blockhash |-> NoHash, lastValidBlockHeight |-> NoHeight]
NoSnap == [taken |-> FALSE, cnt |-> ZeroCount]
\* The last operation made on the cache, by its owner or by the refresh of
\* the call under way: get, set or the passing of a tick, its arguments,
\* its answer and the entries before it.
NoCacheOp == [kind |-> "none", blockhash |-> NoHash, used |-> FALSE,
              hit |-> FALSE, before |-> << >>]

VARIABLES
    cacheEnabled,        \* bool(self.blockhash_cache)
    commitment,          \* self._commitment, the client default
    entries,             \* the cache's entry sequence, oldest first
    now,                 \* time(), counted from the start of the call
    calls,               \* calls made so far
    op,                  \* the public method being executed
    pc,                  \* position inside it
    optsArg,             \* the opts argument of the call
    opts,                \* opts_to_use
    rbArg,               \* send_transaction: the recent_blockhash argument
    recent_blockhash,    \* send_transaction: the blockhash embedded
    got,                 \* send_transaction: what blockhash_cache.get() gave
    blockhash_resp,      \* send_transaction: blockhash_resp before dispatch
    fetchCommitment,     \* commitment of the last get_latest_blockhash
    send_resp,           \* send_raw_transaction: resp, "ok" or "error"
    st_lvbh,             \* send_transaction: last_valid_block_height
    target,              \* confirm_transaction: commitment_to_use
    lvbh,                \* confirm_transaction: last_valid_block_height
    sleep_seconds,       \* confirm_transaction: sleep_seconds, in ticks
    timeout,             \* confirm_transaction: timeout
    current_blockheight, \* confirm_transaction: current_blockheight
    resp,                \* confirm_transaction: resp
    mode,                \* branch of confirm_transaction taken
    state,               \* the poller's state
    result,              \* how the public call ended
    retval,              \* which response the public call returned
    cnt,                 \* requests, sleeps and cache operations of the call
    lat,                 \* latency of the status requests of the call
    below,               \* status responses without error below the target
    reached,             \* status responses without error at or above it
    errSnap,             \* cnt when a status response carried an error
    exceedSnap,          \* cnt when a height reading exceeded the ceiling
    heightErr,           \* a get_block_height response carried an error
    twin,                \* the poller of the run that differs in err fields
    cacheOp,             \* the last operation made directly on the cache
    callerPc,            \* where each caller sharing the client stands
    message              \* the argument of get_fee_for_message

clientVars == <<cacheEnabled, commitment>>
sendVars == <<optsArg, opts, rbArg, recent_blockhash, got, blockhash_resp,
              fetchCommitment, send_resp, st_lvbh>>
confirmVars == <<target, lvbh, sleep_seconds, timeout, current_blockheight,
                 resp, mode, state, twin>>
histVars == <<lat, below, reached, errSnap, exceedSnap, heightErr>>
vars == <<cacheEnabled, commitment, entries, now, calls, op, pc, optsArg, opts,
          rbArg, recent_blockhash, got, blockhash_resp, fetchCommitment,
          send_resp, st_lvbh, target, lvbh, sleep_seconds, timeout,
          current_blockheight, resp, mode, state, result, retval, cnt, lat,
          below,
          reached, errSnap, exceedSnap, heightErr, twin, cacheOp, callerPc, message>>

Bump(c, f) == [c EXCEPT ![f] = @ + 1]

\* ------------------------------------------------------------ the cache
\* BlockhashCache (solana/blockhash.py): entries are
\* [blockhash, insertedAt, used], oldest first.

\* Mutant: an entry is still usable at the age of exactly ttl.
UsableAtBoundary(e, t) == t - e.insertedAt <= Ttl

\* An entry is usable while its age is below ttl.
Usable(e, t) == t - e.insertedAt < Ttl

MinOf(S) == CHOOSE i \in S : \A j \in S : i <= j

\* Mutant: a get that takes the oldest usable entry, used or not.
CacheGetOldestOfAll(es, t) ==
    LET idx == {i \in DOMAIN es : Usable(es[i], t)}
        pick == IF idx # {} THEN MinOf(idx) ELSE 0
    IN  [hit |-> pick # 0,
         blockhash |-> IF pick # 0 THEN es[pick].blockhash ELSE NoHash,
         entries |-> IF pick # 0 THEN [es EXCEPT ![pick].used = TRUE] ELSE es]

\* Mutant: a get that, with no unused entry left, reuses the newest used entry.
CacheGetNewestUsed(es, t) ==
    LET unusedIdx == {i \in DOMAIN es : ~es[i].used /\ Usable(es[i], t)}
        usedIdx == {i \in DOMAIN es : es[i].used /\ Usable(es[i], t)}
        pick == IF unusedIdx # {} THEN MinOf(unusedIdx)
                ELSE IF usedIdx # {}
                     THEN CHOOSE i \in usedIdx : \A j \in usedIdx : j <= i
                     ELSE 0
    IN  [hit |-> pick # 0,
         blockhash |-> IF pick # 0 THEN es[pick].blockhash ELSE NoHash,
         entries |-> IF pick # 0 THEN [es EXCEPT ![pick].used = TRUE] ELSE es]

\* Mutant: a get that takes the entries as they are held, whatever their age.
CacheGetIgnoringTtl(es, t) ==
    LET unusedIdx == {i \in DOMAIN es : ~es[i].used}
        usedIdx == {i \in DOMAIN es : es[i].used}
        pick == IF unusedIdx # {} THEN MinOf(unusedIdx)
                ELSE IF usedIdx # {} THEN MinOf(usedIdx) ELSE 0
    IN  [hit |-> pick # 0,
         blockhash |-> IF pick # 0 THEN es[pick].blockhash ELSE NoHash,
         entries |-> IF pick # 0 THEN [es EXCEPT ![pick].used = TRUE] ELSE es]

\* BlockhashCache.get: the oldest unused entry younger than ttl, else the
\* oldest used one; the entry handed out becomes used.  hit = FALSE is the
\* cache miss (ValueError).
CacheGet(es, t) ==
    LET unusedIdx == {i \in DOMAIN es : ~es[i].used /\ Usable(es[i], t)}
        usedIdx == {i \in DOMAIN es : es[i].used /\ Usable(es[i], t)}
        pick == IF unusedIdx # {} THEN MinOf(unusedIdx)
                ELSE IF usedIdx # {} THEN MinOf(usedIdx) ELSE 0
    IN  [hit |-> pick # 0,
         blockhash |-> IF pick # 0 THEN es[pick].blockhash ELSE NoHash,
         entries |-> IF pick # 0 THEN [es EXCEPT ![pick].used = TRUE] ELSE es]

\* Mutant: a set that, over capacity, drops from the newest end.
CacheSetDropNewest(es, b, used, t) ==
    LET live == SelectSeq(es, LAMBDA e : Usable(e, t))
        present == \E i \in DOMAIN live : live[i].blockhash = b
        upd == IF present
               THEN [i \in DOMAIN live |->
                        IF live[i].blockhash = b
                        THEN [live[i] EXCEPT !.used = @ \/ used]
                        ELSE live[i]]
               ELSE Append(live, [blockhash |-> b, insertedAt |-> t,
                                  used |-> used])
    IN  IF Len(upd) > MaxSize THEN SubSeq(upd, 1, MaxSize) ELSE upd

\* Mutant: a set that gives an entry already present the flag it was called with.
CacheSetOverwriteFlag(es, b, used, t) ==
    LET live == SelectSeq(es, LAMBDA e : Usable(e, t))
        present == \E i \in DOMAIN live : live[i].blockhash = b
        upd == IF present
               THEN [i \in DOMAIN live |->
                        IF live[i].blockhash = b
                        THEN [live[i] EXCEPT !.used = used]
                        ELSE live[i]]
               ELSE Append(live, [blockhash |-> b, insertedAt |-> t,
                                  used |-> used])
    IN  IF Len(upd) > MaxSize
        THEN SubSeq(upd, Len(upd) - MaxSize + 1, Len(upd))
        ELSE upd

\* Mutant: a set that inserts a new entry whether or not the blockhash is present.
CacheSetAlwaysAppend(es, b, used, t) ==
    LET live == SelectSeq(es, LAMBDA e : Usable(e, t))
        upd == Append(live, [blockhash |-> b, insertedAt |-> t, used |-> used])
    IN  IF Len(upd) > MaxSize
        THEN SubSeq(upd, Len(upd) - MaxSize + 1, Len(upd))
        ELSE upd

\* Mutant: a set that moves an entry already present to the newest position.
CacheSetMovingToNewest(es, b, used, t) ==
    LET live == SelectSeq(es, LAMBDA e : Usable(e, t))
        same == SelectSeq(live, LAMBDA e : e.blockhash = b)
        others == SelectSeq(live, LAMBDA e : e.blockhash # b)
        upd == IF Len(same) > 0
               THEN others \o [i \in DOMAIN same |->
                                  [same[i] EXCEPT !.used = @ \/ used]]
               ELSE Append(live, [blockhash |-> b, insertedAt |-> t,
                                  used |-> used])
    IN  IF Len(upd) > MaxSize
        THEN SubSeq(upd, Len(upd) - MaxSize + 1, Len(upd))
        ELSE upd

\* Mutant: a set that puts a new entry at the oldest position.
CacheSetAtOldest(es, b, used, t) ==
    LET live == SelectSeq(es, LAMBDA e : Usable(e, t))
        present == \E i \in DOMAIN live : live[i].blockhash = b
        upd == IF present
               THEN [i \in DOMAIN live |->
                        IF live[i].blockhash = b
                        THEN [live[i] EXCEPT !.used = @ \/ used]
                        ELSE live[i]]
               ELSE <<[blockhash |-> b, insertedAt |-> t, used |-> used]>>
                        \o live
    IN  IF Len(upd) > MaxSize
        THEN SubSeq(upd, Len(upd) - MaxSize + 1, Len(upd))
        ELSE upd

\* BlockhashCache.set: expired entries are purged, an equal entry is kept
\* (its used flag only ever raised), a new one goes to the newest position,
\* and the oldest entries are dropped beyond maxSize.
CacheSet(es, b, used, t) ==
    LET live == SelectSeq(es, LAMBDA e : Usable(e, t))
        present == \E i \in DOMAIN live : live[i].blockhash = b
        upd == IF present
               THEN [i \in DOMAIN live |->
                        IF live[i].blockhash = b
                        THEN [live[i] EXCEPT !.used = @ \/ used]
                        ELSE live[i]]
               ELSE Append(live, [blockhash |-> b, insertedAt |-> t, used |-> used])
    IN  IF Len(upd) > MaxSize
        THEN SubSeq(upd, Len(upd) - MaxSize + 1, Len(upd))
        ELSE upd

\* Mutant: the hash fetched as a fallback is put in the cache as used.
ProcessBlockhashRespInsertsUsed(es, h, used_immediately, t) ==
    CacheSet(es, h, used_immediately, t)

\* _ClientCore._process_blockhash_resp: the hash fetched as a fallback
\* (used_immediately) is not put in the cache, the one fetched after
\* dispatch is inserted unused.
ProcessBlockhashResp(es, h, used_immediately, t) ==
    IF used_immediately THEN es ELSE CacheSet(es, h, FALSE, t)

\* _ClientCore._send_raw_transaction_post_send_args: what the poller is
\* handed from opts_to_use.
PostSendArgs(o) ==
    [conf_comm |-> o.preflight_commitment,
     last_valid_block_height |-> o.last_valid_block_height]

\* ------------------------------------------------ conditions of the code
\* Mutant: the error of a status response is not looked at.
HasRpcErrorIgnored(r) == FALSE

\* Mutant: an error counts only when the response carries no status.
HasRpcErrorUnlessStatus(r) == r.error /\ r.value = "null"

\* resp.get("error") is not None
HasRpcError(r) == r.error

\* Mutant: any status that is present is accepted.
ReachesTargetAnyStatus(value, rank) == value # "null"

\* Mutant: only a finalized status is accepted.
ReachesTargetFinalizedOnly(value, rank) == value = "finalized"

\* Mutant: the comparison of the ranks is strict.
ReachesTargetStrict(value, rank) ==
    /\ value # "null"
    /\ COMMITMENT_RANKS[value] > rank

\* resp_value is not None and COMMITMENT_RANKS[confirmationStatus] >= commitment_rank
ReachesTarget(value, rank) ==
    /\ value # "null"
    /\ COMMITMENT_RANKS[value] >= rank

\* Mutant: the status of a failed transaction counts as no status.
ConfirmationStatusOfSuccess(r) == IF r.err THEN "null" ELSE r.value

\* resp["result"]["value"][0], and resp_value["confirmationStatus"] when it
\* is not None: the only field of the status that is read.
ConfirmationStatus(r) == r.value

\* What one status response does to the poller: the error is raised, the
\* loop is left, or the loop goes on.
Verdict(r, c) ==
    IF HasRpcError(r) THEN "ERRORED"
    ELSE IF ReachesTarget(ConfirmationStatus(r), COMMITMENT_RANKS[c])
    THEN "CONFIRMED"
    ELSE "WAITING"

\* Mutant: a Transaction is taken for a compiled message.
UncompiledIgnored(m) == FALSE

\* isinstance(message, Transaction)
Uncompiled(m) == m = "Transaction"

\* Mutant: the caller's blockhash is not looked at.
CallerBlockhashIgnored(rb) == FALSE

\* if recent_blockhash is None (line 1117), negated
CallerBlockhash(rb) == rb # NoHash

\* Mutant: skip_confirmation is not looked at.
SkipConfirmationIgnored(o) == FALSE

\* if opts_to_use.skip_confirmation (line 1080)
SkipConfirmation(o) == o.skip_confirmation

\* if last_valid_block_height:
HeightBounded(l) == l # NoHeight /\ l # 0

\* Mutant: the height-bounded loop also stops at the 30 s deadline.
WithinHeightAndDeadline(cur, l) == cur <= l /\ now < timeout

\* Mutant: the loop stops at a reading equal to the bound.
WithinHeightStrict(cur, l) == cur < l

\* while current_blockheight <= last_valid_block_height
WithinHeight(cur, l) == cur <= l

\* timeout = time() + 30
Deadline(t) == t + TimeoutSeconds * TicksPerSecond

\* Mutant: the loop still runs at the deadline.
BeforeTimeoutInclusive(t, to) == t <= to

\* while time() < timeout
BeforeTimeout(t, to) == t < to

\* commitment_to_use = self._commitment if commitment is None else commitment
CommitmentToUse(c) == IF c = NoCommitment THEN commitment ELSE c

\* send_raw_transaction: opts_to_use
RawOptsToUse(o) ==
    IF o = NoOpts
    THEN [skip_confirmation |-> FALSE, preflight_commitment |-> commitment,
          last_valid_block_height |-> NoHeight]
    ELSE o

\* Mutant: the captured height fills in caller opts that carry none.
OptsToUseFillingHeight(o, l) ==
    IF o = NoOpts
    THEN [skip_confirmation |-> FALSE, preflight_commitment |-> commitment,
          last_valid_block_height |-> l]
    ELSE [o EXCEPT !.last_valid_block_height = IF @ = NoHeight THEN l ELSE @]

\* Mutant: default opts that always carry a height bound.
OptsToUseAlwaysBounded(o, l) ==
    IF o = NoOpts
    THEN [skip_confirmation |-> FALSE, preflight_commitment |-> commitment,
          last_valid_block_height |-> IF l = NoHeight THEN MaxLvbh ELSE l]
    ELSE o

\* Mutant: default opts that leave out the height captured with the blockhash.
OptsToUseWithoutHeight(o, l) ==
    IF o = NoOpts
    THEN [skip_confirmation |-> FALSE, preflight_commitment |-> commitment,
          last_valid_block_height |-> NoHeight]
    ELSE o

\* send_transaction: opts_to_use
OptsToUse(o, l) ==
    IF o = NoOpts
    THEN [skip_confirmation |-> FALSE, preflight_commitment |-> commitment,
          last_valid_block_height |-> l]
    ELSE o

\* Mutant: both loops end with the unconfirmed error when they run out.
ExhaustedAsTimeout(r, m) ==
    IF r = Unbound THEN [state |-> "CRASHED", result |-> "UnboundLocalError"]
    ELSE IF HasRpcError(r) THEN [state |-> "ERRORED", result |-> "RPCException"]
    ELSE [state |-> "TIMED_OUT", result |-> "UnconfirmedTxError"]

\* The else clause of the polling loops: what the call raises when the loop
\* condition fails.  resp is unbound when no iteration ran.
Exhausted(r, m) ==
    IF r = Unbound THEN [state |-> "CRASHED", result |-> "UnboundLocalError"]
    ELSE IF HasRpcError(r) THEN [state |-> "ERRORED", result |-> "RPCException"]
    ELSE IF m = "height"
         THEN [state |-> "EXPIRED",
               result |-> "TransactionExpiredBlockheightExceededError"]
         ELSE [state |-> "TIMED_OUT", result |-> "UnconfirmedTxError"]

\* ------------------------------------------------------------------ Init
Init ==
    /\ cacheEnabled \in BOOLEAN
    /\ commitment \in Commitment
    /\ entries = << >>
    /\ now = 0
    /\ calls = 0
    /\ op = "none"
    /\ pc = "idle"
    /\ optsArg = NoOpts
    /\ opts = NoOpts
    /\ rbArg = NoHash
    /\ recent_blockhash = NoHash
    /\ got = NoGet
    /\ blockhash_resp = NoFetch
    /\ fetchCommitment = NoCommitment
    /\ send_resp = "none"
    /\ st_lvbh = NoHeight
    /\ target = NoCommitment
    /\ lvbh = NoHeight
    /\ sleep_seconds = DefaultSleep
    /\ timeout = 0
    /\ current_blockheight = NoHeight
    /\ resp = Unbound
    /\ mode = "none"
    /\ state = "NONE"
    /\ result = "none"
    /\ retval = "none"
    /\ cnt = ZeroCount
    /\ lat = 0
    /\ below = 0
    /\ reached = 0
    /\ errSnap = NoSnap
    /\ exceedSnap = NoSnap
    /\ heightErr = FALSE
    /\ twin = NoTwin
    /\ cacheOp = NoCacheOp
    /\ callerPc = [c \in Callers |-> "idle"]
    /\ message = NoMessage

\* --------------------------------------------------- shared continuations
\* Mutant: an RPC error makes the submission be tried again.
RaiseOrResend(e) ==
    IF e = "RPCException" /\ op # "confirm_transaction" /\ cnt.send < 2
    THEN /\ result' = result
         /\ pc' = "srt_request"
         /\ retval' = retval
    ELSE /\ result' = e
         /\ pc' = "done"
         /\ retval' = retval

\* Mutant: send_transaction goes on to its cache refresh when the send
\* request has failed.
RaiseThenRefresh(e) ==
    IF pc = "srt_request" /\ op = "send_transaction" /\ cacheEnabled
    THEN /\ pc' = "st_refresh"
         /\ result' = result
         /\ retval' = retval
    ELSE /\ result' = e
         /\ pc' = "done"
         /\ retval' = retval

\* The public call ends by raising exception e.
Raise(e) ==
    /\ result' = e
    /\ pc' = "done"
    /\ retval' = retval

\* Mutant: every call goes on to a cache refresh after its confirmation.
ReturnFromSendRawRefreshing ==
    /\ pc' = "st_refresh"
    /\ result' = result
    /\ retval' = retval

\* Mutant: a call that has confirmed hands back the last status response.
ReturnedValueOfConfirmation(o) ==
    IF o = "confirm_transaction" \/ state # "NONE"
    THEN "resp"
    ELSE "send_resp"

\* What a call that returns hands back: confirm_transaction its last status
\* response (return resp, lines 1237 and 1256), the two send methods the
\* response of the send request (lines 1081, 1197 and 1144).
ReturnedValue(o) == IF o = "confirm_transaction" THEN "resp" ELSE "send_resp"

\* Mutant: a call that skips confirmation returns without the cache refresh.
ReturnFromSendRawUnlessSkipped ==
    IF op = "send_transaction" /\ cacheEnabled /\ state # "NONE"
    THEN /\ pc' = "st_refresh"
         /\ result' = result
         /\ retval' = retval
    ELSE /\ pc' = "done"
         /\ result' = "returned"
         /\ retval' = ReturnedValue(op)

\* send_raw_transaction has returned the send response: send_transaction
\* goes on to its cache refresh (line 1141), the other calls return.
ReturnFromSendRaw ==
    IF op = "send_transaction" /\ cacheEnabled
    THEN /\ pc' = "st_refresh"
         /\ result' = result
         /\ retval' = retval
    ELSE /\ pc' = "done"
         /\ result' = "returned"
         /\ retval' = ReturnedValue(op)

\* Mutant: the height-bounded loop is entered without a first reading.
EnterConfirmWithoutReading(c, s, l) ==
    /\ timeout' = Deadline(now)
    /\ target' = CommitmentToUse(c)
    /\ sleep_seconds' = s
    /\ lvbh' = l
    /\ state' = "WAITING"
    /\ resp' = Unbound
    /\ twin' = [NoTwin EXCEPT !.state = "WAITING"]
    /\ current_blockheight' = NoHeight
    /\ mode' = IF HeightBounded(l) THEN "height" ELSE "wallclock"
    /\ pc' = "ct_status"

\* confirm_transaction is entered with (commitment, sleep_seconds,
\* last_valid_block_height): lines 1214-1217 and the first test of the
\* wall-clock loop.
EnterConfirm(c, s, l) ==
    /\ timeout' = Deadline(now)
    /\ target' = CommitmentToUse(c)
    /\ sleep_seconds' = s
    /\ lvbh' = l
    /\ state' = "WAITING"
    /\ resp' = Unbound
    /\ twin' = [NoTwin EXCEPT !.state = "WAITING"]
    /\ current_blockheight' = NoHeight
    /\ IF HeightBounded(l)
       THEN /\ mode' = "height"
            /\ pc' = "ct_height0"
       ELSE /\ mode' = "wallclock"
            /\ pc' = "ct_status"

\* A step of the call that looks at no status: the second run, as long as
\* it stands where this one stands, takes the same step.
Follow == twin' = [twin EXCEPT !.state = IF @ = state THEN state' ELSE @]

\* The loop condition failed: the else clause of the loop raises.
Exhaust(r) ==
    /\ state' = Exhausted(r, mode).state
    /\ Raise(Exhausted(r, mode).result)

\* ---------------------------------------------------------- the actions
\* send_transaction, lines 1116-1121 and 1131-1138: the blockhash is the
\* caller's or the cache's, or has to be fetched.
CallSendTransaction ==
    /\ pc = "idle"
    /\ calls < MaxCalls
    /\ \E o \in TxOpts \cup {NoOpts}, rb \in Hashes \cup {NoHash} :
        /\ op' = "send_transaction"
        /\ calls' = calls + 1
        /\ optsArg' = o
        /\ rbArg' = rb
        /\ IF CallerBlockhash(rb)
           THEN /\ recent_blockhash' = rb
                /\ opts' = OptsToUse(o, NoHeight)
                /\ pc' = "srt_request"
                /\ UNCHANGED <<entries, cnt, got>>
           ELSE IF cacheEnabled
           THEN LET g == CacheGet(entries, now)
                IN  /\ cnt' = Bump(cnt, "get")
                    /\ got' = [called |-> TRUE, hit |-> g.hit,
                               blockhash |-> g.blockhash]
                    /\ entries' = g.entries
                    /\ recent_blockhash' = g.blockhash
                    /\ IF g.hit
                       THEN /\ opts' = OptsToUse(o, NoHeight)
                            /\ pc' = "srt_request"
                       ELSE /\ opts' = opts
                            /\ pc' = "st_fetch"
           ELSE /\ pc' = "st_fetch"
                /\ UNCHANGED <<entries, cnt, got, recent_blockhash, opts>>
    /\ UNCHANGED <<clientVars, cacheOp, callerPc, message, now, blockhash_resp, fetchCommitment, send_resp,
                   st_lvbh, confirmVars, result, retval,
                   histVars>>

\* send_transaction, lines 1122-1124 and 1127-1129: the response of
\* get_latest_blockhash(Finalized) on a cache miss or without a cache.
FetchBlockhash ==
    /\ pc = "st_fetch"
    /\ cnt' = Bump(cnt, "fetch")
    /\ fetchCommitment' = Finalized
    /\ \/ \E h \in Hashes, l \in NetworkLvbh :
            /\ blockhash_resp' = [blockhash |-> h, lastValidBlockHeight |-> l]
            /\ recent_blockhash' = h
            /\ st_lvbh' = l
            /\ entries' = IF cacheEnabled
                          THEN ProcessBlockhashResp(entries, h, TRUE, now)
                          ELSE entries
            /\ opts' = OptsToUse(optsArg, l)
            /\ pc' = "srt_request"
            /\ UNCHANGED <<result, retval>>
       \/ /\ Raise("RuntimeError")
          /\ UNCHANGED <<blockhash_resp, recent_blockhash, st_lvbh, entries, opts>>
    /\ UNCHANGED <<clientVars, cacheOp, callerPc, message, now, calls, op, optsArg, rbArg, got, send_resp,
                   confirmVars, histVars>>

\* send_raw_transaction called by the application, line 1077.
CallSendRawTransaction ==
    /\ pc = "idle"
    /\ calls < MaxCalls
    /\ \E o \in TxOpts \cup {NoOpts} :
        /\ optsArg' = o
        /\ opts' = RawOptsToUse(o)
    /\ op' = "send_raw_transaction"
    /\ calls' = calls + 1
    /\ pc' = "srt_request"
    /\ UNCHANGED <<clientVars, cacheOp, callerPc, message, entries, now, rbArg, recent_blockhash, got,
                   blockhash_resp, fetchCommitment, send_resp, st_lvbh,
                   confirmVars, result, retval, cnt,
                   histVars>>

\* send_raw_transaction, lines 1078-1083, with __post_send_with_confirm
\* (1190-1196): the response of the one sendTransaction request.
SendRawRequest ==
    /\ pc = "srt_request"
    /\ cnt' = Bump(cnt, "send")
    /\ \/ /\ send_resp' = "error"
          /\ Raise("RPCException")
          /\ UNCHANGED confirmVars
       \/ /\ send_resp' = "ok"
          /\ IF SkipConfirmation(opts)
             THEN /\ ReturnFromSendRaw
                  /\ UNCHANGED confirmVars
             ELSE /\ EnterConfirm(PostSendArgs(opts).conf_comm, DefaultSleep,
                                  PostSendArgs(opts).last_valid_block_height)
                  /\ UNCHANGED <<result, retval>>
    /\ UNCHANGED <<clientVars, cacheOp, callerPc, message, entries, now, calls, op, optsArg, opts, rbArg,
                   recent_blockhash, got, blockhash_resp, fetchCommitment,
                   st_lvbh, histVars>>

\* confirm_transaction called by the application.
CallConfirmTransaction ==
    /\ pc = "idle"
    /\ calls < MaxCalls
    /\ op' = "confirm_transaction"
    /\ calls' = calls + 1
    /\ \E c \in Commitment \cup {NoCommitment}, s \in SleepChoices, l \in LvbhChoices :
        EnterConfirm(c, s, l)
    /\ UNCHANGED <<clientVars, cacheOp, callerPc, message, entries, now, sendVars, result, retval, cnt,
                   histVars>>

\* confirm_transaction, lines 1218-1219: the first block height, and the
\* first test of the height loop.
BlockHeightInitial ==
    /\ pc = "ct_height0"
    /\ cnt' = Bump(cnt, "height")
    /\ \/ \E h \in Heights :
            /\ current_blockheight' = h
            /\ exceedSnap' = IF h > lvbh THEN [taken |-> TRUE, cnt |-> cnt']
                             ELSE exceedSnap
            /\ UNCHANGED heightErr
            /\ IF WithinHeight(h, lvbh)
               THEN /\ pc' = "ct_status"
                    /\ UNCHANGED <<state, result, retval>>
               ELSE Exhaust(resp)
       \/ /\ heightErr' = TRUE
          /\ state' = "CRASHED"
          /\ Raise("KeyError")
          /\ UNCHANGED <<current_blockheight, exceedSnap>>
    /\ Follow
    /\ UNCHANGED <<clientVars, cacheOp, callerPc, message, entries, now, calls, op, sendVars, target, lvbh,
                   sleep_seconds, timeout, resp, mode, lat, below, reached,
                   errSnap>>

\* A status value v that is a commitment at or above commitment c in the
\* order processed < confirmed < finalized.
AtOrAbove(v, c) ==
    <<v, c>> \in {<<"processed", "processed">>, <<"confirmed", "processed">>,
                  <<"finalized", "processed">>, <<"confirmed", "confirmed">>,
                  <<"finalized", "confirmed">>, <<"finalized", "finalized">>}

\* confirm_transaction, lines 1220-1229 and 1240-1249: one status poll,
\* answered after a delay in D with a response in R.
Poll(D, R) ==
    /\ pc = "ct_status"
    /\ mode = "height" => cnt.status < MaxPolls
    /\ \E r \in R, d \in D :
        /\ now' = now + d
        /\ lat' = lat + d
        /\ resp' = r
        /\ \E q \in {x \in R : x.error = r.error /\ x.value = r.value} :
              twin' = IF twin.state = "WAITING"
                      THEN [state |-> Verdict(q, target),
                            polls |-> twin.polls + 1,
                            err |-> q.err]
                      ELSE twin
        /\ cnt' = Bump(cnt, "status")
        /\ errSnap' = IF r.error THEN [taken |-> TRUE, cnt |-> cnt'] ELSE errSnap
        /\ reached' = IF ~r.error /\ AtOrAbove(r.value, target)
                      THEN reached + 1 ELSE reached
        /\ below' = IF ~r.error /\ ~AtOrAbove(r.value, target)
                    THEN below + 1 ELSE below
        /\ IF Verdict(r, target) = "ERRORED"
           THEN /\ state' = "ERRORED"
                /\ Raise("RPCException")
           ELSE IF Verdict(r, target) = "CONFIRMED"
           THEN /\ state' = "CONFIRMED"
                /\ ReturnFromSendRaw
           ELSE /\ pc' = IF mode = "height" THEN "ct_height" ELSE "ct_sleep"
                /\ UNCHANGED <<state, result, retval>>
    /\ UNCHANGED <<clientVars, cacheOp, callerPc, message, entries, calls, op, sendVars, target, lvbh,
                   sleep_seconds, timeout, current_blockheight, mode, exceedSnap,
                   heightErr>>

\* confirm_transaction, line 1230: the block height is read again.
BlockHeightRequery ==
    /\ pc = "ct_height"
    /\ cnt' = Bump(cnt, "height")
    /\ \/ \E h \in Heights :
            /\ current_blockheight' = h
            /\ exceedSnap' = IF h > lvbh THEN [taken |-> TRUE, cnt |-> cnt']
                             ELSE exceedSnap
            /\ UNCHANGED heightErr
            /\ pc' = "ct_sleep"
            /\ UNCHANGED <<state, result, retval>>
       \/ /\ heightErr' = TRUE
          /\ state' = "CRASHED"
          /\ Raise("KeyError")
          /\ UNCHANGED <<current_blockheight, exceedSnap>>
    /\ Follow
    /\ UNCHANGED <<clientVars, cacheOp, callerPc, message, entries, now, calls, op, sendVars, target, lvbh,
                   sleep_seconds, timeout, resp, mode, lat, below, reached,
                   errSnap>>

\* confirm_transaction, lines 1231 and 1250: the sleep, then the loop test
\* (1219, 1239) and, when it fails, the else clause (1232-1236, 1251-1255).
Sleep ==
    /\ pc = "ct_sleep"
    /\ now' = now + sleep_seconds
    /\ cnt' = Bump(cnt, "sleep")
    /\ IF \/ mode = "height" /\ WithinHeight(current_blockheight, lvbh)
          \/ mode = "wallclock" /\ BeforeTimeout(now', timeout)
       THEN /\ pc' = "ct_status"
            /\ UNCHANGED <<state, result, retval>>
       ELSE Exhaust(resp)
    /\ Follow
    /\ UNCHANGED <<clientVars, cacheOp, callerPc, message, entries, calls, op, sendVars, target, lvbh,
                   sleep_seconds, timeout, current_blockheight, resp, mode,
                   histVars>>

\* get_fee_for_message, lines 474-475: a Transaction is refused at once.
CallGetFeeForMessage ==
    /\ pc = "idle"
    /\ calls < MaxCalls
    /\ op' = "get_fee_for_message"
    /\ calls' = calls + 1
    /\ \E m \in MessageArgs :
        /\ message' = m
        /\ IF Uncompiled(m)
           THEN Raise("TransactionUncompiledError")
           ELSE /\ pc' = "fee_request"
                /\ UNCHANGED <<result, retval>>
    /\ UNCHANGED <<clientVars, cacheOp, callerPc, entries, now, sendVars,
                   confirmVars, cnt, histVars>>

\* get_fee_for_message, lines 476-477: the request is made and its
\* response returned.
FeeRequest ==
    /\ pc = "fee_request"
    /\ cnt' = Bump(cnt, "fee")
    /\ result' = "returned"
    /\ retval' = "fee_resp"
    /\ pc' = "done"
    /\ UNCHANGED <<clientVars, cacheOp, callerPc, message, entries, now,
                   calls, op, sendVars, confirmVars, histVars>>

\* send_transaction, lines 1141-1144: the latest blockhash is fetched and
\* put in the cache as unused.
Refresh ==
    /\ pc = "st_refresh"
    /\ fetchCommitment' = Finalized
    /\ \/ \E h \in Hashes :
            /\ entries' = ProcessBlockhashResp(entries, h, FALSE, now)
            /\ cacheOp' = [kind |-> "set", blockhash |-> h, used |-> FALSE,
                           hit |-> FALSE, before |-> entries]
            /\ cnt' = Bump(Bump(Bump(cnt, "fetch"), "refresh"), "set")
            /\ result' = "returned"
            /\ retval' = ReturnedValue(op)
            /\ pc' = "done"
       \/ /\ cnt' = Bump(Bump(cnt, "fetch"), "refresh")
          /\ Raise("RuntimeError")
          /\ UNCHANGED <<entries, cacheOp>>
    /\ UNCHANGED <<clientVars, callerPc, message, now, calls, op, optsArg,
                   opts, rbArg,
                   recent_blockhash, got, blockhash_resp, send_resp, st_lvbh,
                   confirmVars, histVars>>

\* The origin of time is moved d ticks forward.  An entry that has reached
\* ttl stays expired whatever its age, so its age is kept at ttl.
Rebase(es, d) ==
    [i \in DOMAIN es |->
        [es[i] EXCEPT !.insertedAt =
            IF @ - d < 0 - Ttl THEN 0 - Ttl ELSE @ - d]]

\* The call has ended; the application is free to make the next one.
Return ==
    /\ pc = "done"
    /\ pc' = "idle"
    /\ op' = "none"
    /\ optsArg' = NoOpts
    /\ opts' = NoOpts
    /\ rbArg' = NoHash
    /\ recent_blockhash' = NoHash
    /\ got' = NoGet
    /\ blockhash_resp' = NoFetch
    /\ fetchCommitment' = NoCommitment
    /\ send_resp' = "none"
    /\ st_lvbh' = NoHeight
    /\ target' = NoCommitment
    /\ lvbh' = NoHeight
    /\ sleep_seconds' = DefaultSleep
    /\ timeout' = 0
    /\ current_blockheight' = NoHeight
    /\ resp' = Unbound
    /\ mode' = "none"
    /\ state' = "NONE"
    /\ result' = "none"
    /\ retval' = "none"
    /\ cnt' = ZeroCount
    /\ lat' = 0
    /\ below' = 0
    /\ reached' = 0
    /\ errSnap' = NoSnap
    /\ exceedSnap' = NoSnap
    /\ heightErr' = FALSE
    /\ twin' = NoTwin
    /\ message' = NoMessage
    /\ now' = 0
    /\ entries' = Rebase(entries, now)
    /\ cacheOp' = NoCacheOp
    /\ UNCHANGED <<clientVars, callerPc, calls>>

\* Time passes between two calls.
Tick ==
    /\ pc = "idle"
    /\ \E i \in DOMAIN entries : Usable(entries[i], now)
    /\ entries' = Rebase(entries, 1)
    /\ UNCHANGED <<clientVars, cacheOp, callerPc, message, now, calls, op, pc, sendVars, confirmVars,
                   result, retval, cnt,
                   histVars>>

\* A status poll whose answer comes at once or at the provider's timeout.
SignatureStatus == Poll(Latencies, Succeeded)

\* A status poll on a slow transport: the answer comes at the timeout.
SlowSignatureStatus == Poll({MaxLatency}, Succeeded)

\* A status poll on a slow transport whose status may be that of a
\* transaction that failed.
AnySignatureStatus == Poll({MaxLatency}, StatusResponses)

\* The client and its cache under calls of its three methods, on a slow
\* transport.
Next ==
    \/ CallSendTransaction
    \/ FetchBlockhash
    \/ CallSendRawTransaction
    \/ SendRawRequest
    \/ CallConfirmTransaction
    \/ BlockHeightInitial
    \/ SlowSignatureStatus
    \/ BlockHeightRequery
    \/ Sleep
    \/ Refresh
    \/ CallGetFeeForMessage
    \/ FeeRequest
    \/ Return
    \/ Tick

Spec == Init /\ [][Next]_vars

\* The poller under calls of confirm_transaction and send_raw_transaction,
\* with every timing of the status polls.
PollNext ==
    \/ CallSendRawTransaction
    \/ SendRawRequest
    \/ CallConfirmTransaction
    \/ BlockHeightInitial
    \/ SignatureStatus
    \/ BlockHeightRequery
    \/ Sleep
    \/ Return

PollSpec == Init /\ [][PollNext]_vars

\* confirm_transaction on its own, run to its end: every request made is
\* answered and every sleep returns, a single thread of control taking the
\* call from one step to the next.  The application is free to stop calling.
ConfirmStep ==
    \/ BlockHeightInitial
    \/ SlowSignatureStatus
    \/ BlockHeightRequery
    \/ Sleep
    \/ Return

ConfirmNext ==
    \/ CallConfirmTransaction
    \/ ConfirmStep

FairConfirmSpec == Init /\ [][ConfirmNext]_vars /\ WF_vars(ConfirmStep)

\* confirm_transaction on its own, polling a transaction that may have
\* failed, next to a second run given the same responses but for the err
\* fields.
ErrNext ==
    \/ CallConfirmTransaction
    \/ BlockHeightInitial
    \/ AnySignatureStatus
    \/ BlockHeightRequery
    \/ Sleep
    \/ Return

ErrSpec == Init /\ [][ErrNext]_vars

\* ------------------------------------------- the cache used on its own
\* blockhash_cache.get() by the owner of the cache.
CacheGetCall ==
    /\ pc = "idle"
    /\ LET g == CacheGet(entries, now)
       IN  /\ entries' = g.entries
           /\ cacheOp' = [kind |-> "get", blockhash |-> g.blockhash,
                          used |-> FALSE, hit |-> g.hit, before |-> entries]
    /\ UNCHANGED <<clientVars, callerPc, message, now, calls, op, pc, sendVars,
                   confirmVars,
                   result, retval, cnt,
                   histVars>>

\* blockhash_cache.set(blockhash, used) by the owner of the cache.
CacheSetCall ==
    /\ pc = "idle"
    /\ \E b \in CacheHashes, u \in BOOLEAN :
        /\ entries' = CacheSet(entries, b, u, now)
        /\ cacheOp' = [kind |-> "set", blockhash |-> b, used |-> u,
                       hit |-> FALSE, before |-> entries]
    /\ UNCHANGED <<clientVars, callerPc, message, now, calls, op, pc, sendVars,
                   confirmVars,
                   result, retval, cnt,
                   histVars>>

\* Time passes between two operations on the cache.
CacheTick ==
    /\ pc = "idle"
    /\ \E i \in DOMAIN entries : Usable(entries[i], now)
    /\ entries' = Rebase(entries, 1)
    /\ cacheOp' = [kind |-> "tick", blockhash |-> NoHash, used |-> FALSE,
                   hit |-> FALSE, before |-> entries]
    /\ UNCHANGED <<clientVars, callerPc, message, now, calls, op, pc, sendVars,
                   confirmVars,
                   result, retval, cnt,
                   histVars>>

CacheInit ==
    /\ Init
    /\ cacheEnabled
    /\ commitment = Finalized

CacheNext ==
    \/ CacheGetCall
    \/ CacheSetCall
    \/ CacheTick

\* The cache under every sequence of get, set and passing of time.
CacheSpec == CacheInit /\ [][CacheNext]_vars

\* ------------------------------- callers sharing one client and its cache
\* Each caller runs send_transaction; a cache get or set is one step, made
\* under the lock that guards the cache, and the steps of different callers
\* interleave freely.
SharedUnchanged ==
    UNCHANGED <<clientVars, cacheOp, message, now, calls, op, pc, sendVars,
                confirmVars, result, retval, cnt,
                   histVars>>

\* Lines 1116-1120: the caller's blockhash, or blockhash_cache.get().
SharedChoose(c) ==
    /\ callerPc[c] = "idle"
    /\ \/ /\ callerPc' = [callerPc EXCEPT ![c] = "dispatch"]
          /\ UNCHANGED entries
       \/ LET g == CacheGet(entries, now)
          IN  /\ entries' = g.entries
              /\ callerPc' = [callerPc EXCEPT
                                 ![c] = IF g.hit THEN "dispatch" ELSE "fetch"]
    /\ SharedUnchanged

\* Lines 1121-1124: the fallback fetch after a miss.
SharedFetch(c) ==
    /\ callerPc[c] = "fetch"
    /\ \/ \E h \in CacheHashes :
            /\ entries' = ProcessBlockhashResp(entries, h, TRUE, now)
            /\ callerPc' = [callerPc EXCEPT ![c] = "dispatch"]
       \/ /\ callerPc' = [callerPc EXCEPT ![c] = "idle"]
          /\ UNCHANGED entries
    /\ SharedUnchanged

\* Line 1140: dispatch and confirmation, which return or raise.
SharedDispatch(c) ==
    /\ callerPc[c] = "dispatch"
    /\ \/ callerPc' = [callerPc EXCEPT ![c] = "refresh"]
       \/ callerPc' = [callerPc EXCEPT ![c] = "idle"]
    /\ UNCHANGED entries
    /\ SharedUnchanged

\* Lines 1141-1144: the refresh, whose set is made under the lock.
SharedRefresh(c) ==
    /\ callerPc[c] = "refresh"
    /\ \/ \E h \in CacheHashes :
            entries' = ProcessBlockhashResp(entries, h, FALSE, now)
       \/ UNCHANGED entries
    /\ callerPc' = [callerPc EXCEPT ![c] = "idle"]
    /\ SharedUnchanged

\* Time passes while the callers are at work.
SharedTick ==
    /\ \E i \in DOMAIN entries : Usable(entries[i], now)
    /\ entries' = Rebase(entries, 1)
    /\ UNCHANGED callerPc
    /\ SharedUnchanged

SharedNext ==
    \/ \E c \in Callers : SharedChoose(c)
    \/ \E c \in Callers : SharedFetch(c)
    \/ \E c \in Callers : SharedDispatch(c)
    \/ \E c \in Callers : SharedRefresh(c)
    \/ SharedTick

SharedSpec == CacheInit /\ [][SharedNext]_vars

TypeOK ==
    /\ cacheEnabled \in BOOLEAN
    /\ commitment \in Commitment
    /\ now >= 0
    /\ calls \in 0 .. MaxCalls
    /\ Len(entries) <= MaxSize
    /\ opts \in TxOpts \cup {NoOpts}
    /\ resp \in StatusResponses \cup {Unbound}
    /\ state \in {"NONE", "WAITING", "CONFIRMED", "EXPIRED", "TIMED_OUT",
                  "ERRORED", "CRASHED"}
    /\ callerPc \in [Callers -> {"idle", "fetch", "dispatch", "refresh"}]
    /\ message \in MessageArgs \cup {NoMessage}
    /\ retval \in {"none", "resp", "send_resp", "fee_resp"}
    /\ heightErr \in BOOLEAN
    /\ twin \in [state : {"NONE", "WAITING", "CONFIRMED", "EXPIRED",
                          "TIMED_OUT", "ERRORED", "CRASHED"},
                  polls : 0 .. 1 + TimeoutSeconds * TicksPerSecond,
                  err : BOOLEAN]
    /\ cacheOp.kind \in {"none", "get", "set", "tick"}
    /\ cacheOp.blockhash \in CacheHashes \cup {NoHash}
    /\ Len(cacheOp.before) <= MaxSize

\* ------------------------------------------------------------ the claims
Ceiling == TimeoutSeconds * TicksPerSecond
Sending == op \in {"send_raw_transaction", "send_transaction"}
PollerEnded == state \in {"CONFIRMED", "EXPIRED", "TIMED_OUT", "ERRORED"}

\* C1: in both modes, a signature-status response that carries a
\* request-level error ends the call with the RPC error in that same
\* iteration: no status query, block-height query or sleep follows it.
C1_ErrorEndsPolling ==
    errSnap.taken =>
        /\ state = "ERRORED"
        /\ result = "RPCException"
        /\ pc = "done"
        /\ resp.error
        /\ cnt.status = errSnap.cnt.status
        /\ cnt.height = errSnap.cnt.height
        /\ cnt.sleep = errSnap.cnt.sleep

\* C1 witness: in the height-bounded mode the third status response carries
\* the error, together with a status at the target.
C1_Witness ==
    /\ errSnap.taken
    /\ mode = "height"
    /\ cnt.status = 3
    /\ AtOrAbove(resp.value, target)
    /\ state = "ERRORED"

\* C2 (as claimed): once a block height above lastValidBlockHeight has been
\* read, no status query and no block-height query follows, and the call
\* ends with the blockheight-expired error.
C2_ExceededHeightExpires ==
    exceedSnap.taken =>
        /\ cnt.status = exceedSnap.cnt.status
        /\ cnt.height = exceedSnap.cnt.height
        /\ pc = "done" => state = "EXPIRED"

\* C3: height-bounded, the first status response that reaches the target,
\* after k-1 responses below it, ends the call CONFIRMED at once, after
\* exactly k status queries, with that response as the value returned.
C3_ConfirmedOnKthPoll ==
    (mode = "height" /\ reached > 0) =>
        /\ state = "CONFIRMED"
        /\ reached = 1
        /\ cnt.status = below + 1
        /\ cnt.sleep = below
        /\ ~resp.error
        /\ AtOrAbove(resp.value, target)
        /\ pc \in {"done", "st_refresh"}
        /\ result \in {"returned", "none", "RuntimeError"}
        /\ pc = "done" /\ op # "send_transaction" => result = "returned"

\* C3 witness: two responses below the target, then the status confirmed.
C3_Witness ==
    /\ mode = "height"
    /\ state = "CONFIRMED"
    /\ below = 2
    /\ cnt.status = 3
    /\ resp.value = "confirmed"
    /\ target = "confirmed"

\* C4: wall-clock, the polls go on exactly while the time elapsed is below
\* the 30 second ceiling, and the timeout error is raised after k polls and
\* k sleeps with (k-1) * interval < 30 s <= k * interval + time spent in the
\* requests: 30 s / interval polls when the requests take no time.
C4_TimeoutAfterCeiling ==
    /\ (mode = "wallclock" /\ pc = "ct_status") => now < Ceiling
    /\ state = "TIMED_OUT" =>
        /\ mode = "wallclock"
        /\ result = "UnconfirmedTxError"
        /\ timeout = Ceiling
        /\ now >= Ceiling
        /\ reached = 0
        /\ ~errSnap.taken
        /\ cnt.height = 0
        /\ cnt.sleep = cnt.status
        /\ cnt.status = below
        /\ (cnt.status - 1) * sleep_seconds < Ceiling
        /\ cnt.status * sleep_seconds + lat >= Ceiling

\* C4 witness: sixty polls half a second apart, answered at once, then the
\* timeout.
C4_Witness ==
    /\ state = "TIMED_OUT"
    /\ sleep_seconds = DefaultSleep
    /\ lat = 0
    /\ cnt.status = Ceiling

\* C5: in both modes a status response without error is accepted as
\* confirmed exactly when its commitment is at or above the target in the
\* order processed < confirmed < finalized; a status equal to the target is
\* accepted.
C5_AcceptedIffRankReached ==
    /\ state = "CONFIRMED" => (~resp.error /\ AtOrAbove(resp.value, target))
    /\ (state = "WAITING" /\ resp # Unbound) =>
            (~resp.error /\ ~AtOrAbove(resp.value, target))
    /\ state \in {"EXPIRED", "TIMED_OUT"} => ~AtOrAbove(resp.value, target)

\* C5 witness: wall-clock, a status equal to the target is accepted.
C5_Witness ==
    /\ state = "CONFIRMED"
    /\ mode = "wallclock"
    /\ resp.value = target
    /\ target = "confirmed"

\* C6 (as claimed): the call is height-bounded for every integer
\* lastValidBlockHeight, 0 included, and wall-clock only without one.
C6_ModeByPresence ==
    state # "NONE" => (mode = "height" <=> lvbh # NoHeight)

\* C7: a call of send_raw_transaction or send_transaction issues the send
\* request once, whatever the poller does afterwards; confirm_transaction
\* issues none.
C7_SubmitAtMostOnce ==
    /\ cnt.send <= 1
    /\ (Sending /\ state # "NONE") => cnt.send = 1
    /\ (Sending /\ result = "returned") => cnt.send = 1
    /\ op = "confirm_transaction" => cnt.send = 0

\* C7 witness: send_transaction whose confirmation timed out after three
\* status polls.
C7_Witness ==
    /\ op = "send_transaction"
    /\ state = "TIMED_OUT"
    /\ cnt.status = 3
    /\ cnt.send = 1

\* C8 (as claimed): with the cache enabled, when send_transaction ends
\* after its poller ended, confirmed or not, a latest blockhash has been
\* fetched after dispatch, and inserted if the fetch succeeded.
C8_RefreshWhateverConfirmation ==
    (op = "send_transaction" /\ cacheEnabled /\ pc = "done" /\ PollerEnded) =>
        /\ cnt.refresh = 1
        /\ result = "returned" => cnt.set = 1

\* C9: at dispatch the blockhash embedded is the caller's, with no cache
\* get, no fetch and no height; else with a cache the one of cache.get(),
\* and only on a miss the one fetched at finalized, with its height; else,
\* without a cache, the one fetched at finalized, with its height.
C9_BlockhashChoice ==
    (op = "send_transaction" /\ pc = "srt_request") =>
        /\ rbArg # NoHash =>
            /\ recent_blockhash = rbArg
            /\ cnt.get = 0 /\ cnt.fetch = 0
            /\ st_lvbh = NoHeight
        /\ (rbArg = NoHash /\ cacheEnabled) =>
            /\ cnt.get = 1 /\ got.called
            /\ got.hit =>
                /\ recent_blockhash = got.blockhash
                /\ cnt.fetch = 0
                /\ st_lvbh = NoHeight
            /\ ~got.hit =>
                /\ cnt.fetch = 1
                /\ fetchCommitment = Finalized
                /\ recent_blockhash = blockhash_resp.blockhash
                /\ st_lvbh = blockhash_resp.lastValidBlockHeight
                /\ st_lvbh # NoHeight
        /\ (rbArg = NoHash /\ ~cacheEnabled) =>
            /\ cnt.get = 0 /\ cnt.fetch = 1
            /\ fetchCommitment = Finalized
            /\ recent_blockhash = blockhash_resp.blockhash
            /\ st_lvbh = blockhash_resp.lastValidBlockHeight
            /\ st_lvbh # NoHeight
        /\ recent_blockhash \in Hashes

\* C9 witness: the caller supplies a blockhash while the cache holds a
\* usable entry.
C9_Witness ==
    /\ op = "send_transaction"
    /\ pc = "srt_request"
    /\ rbArg # NoHash
    /\ cacheEnabled
    /\ \E i \in DOMAIN entries : Usable(entries[i], now)

\* C10: with skip_confirmation, send_raw_transaction returns the send
\* response at once: no status query, no block-height query, no sleep.
C10_SkipConfirmationReturns ==
    (Sending /\ opts # NoOpts /\ opts.skip_confirmation) =>
        /\ cnt.status = 0 /\ cnt.height = 0 /\ cnt.sleep = 0
        /\ state = "NONE"
        /\ (op = "send_raw_transaction" /\ send_resp = "ok") =>
                (pc = "done" /\ result = "returned")

\* C10 witness: send_raw_transaction with skip_confirmation has returned.
C10_Witness ==
    /\ op = "send_raw_transaction"
    /\ opts # NoOpts
    /\ opts.skip_confirmation
    /\ send_resp = "ok"
    /\ result = "returned"

\* ------------------------------------------------- the claims on the cache
\* Age below the time-to-live, read off the entry and the clock.
Fresh(e) == now - e.insertedAt < Ttl
GetDone == cacheOp.kind = "get"
SetDone == cacheOp.kind = "set"
FreshUnused(es) == {i \in DOMAIN es : Fresh(es[i]) /\ ~es[i].used}
FreshUsed(es) == {i \in DOMAIN es : Fresh(es[i]) /\ es[i].used}

\* C11: when the cache holds an unused entry younger than ttl, get returns
\* the oldest such unused entry, whether or not a used entry younger than
\* ttl is also held; the entry returned is marked used.
C11_PrefersOldestUnused ==
    (GetDone /\ FreshUnused(cacheOp.before) # {}) =>
        /\ cacheOp.hit
        /\ \E i \in FreshUnused(cacheOp.before) :
            /\ \A j \in FreshUnused(cacheOp.before) : i <= j
            /\ cacheOp.blockhash = cacheOp.before[i].blockhash
            /\ entries[i].used

\* C11 witness: a used entry K, older than the unused entry U and both
\* younger than ttl, was held, and get returned U.
C11_Witness ==
    /\ GetDone
    /\ Len(cacheOp.before) = 2
    /\ FreshUsed(cacheOp.before) = {1}
    /\ FreshUnused(cacheOp.before) = {2}
    /\ cacheOp.before[1].insertedAt < cacheOp.before[2].insertedAt
    /\ cacheOp.blockhash = cacheOp.before[2].blockhash

\* C12: when every entry younger than ttl is used, get returns the oldest
\* of them: of two used entries inserted at t1 < t2, the one of t1.
C12_OldestUsedReused ==
    (GetDone /\ FreshUnused(cacheOp.before) = {}
             /\ FreshUsed(cacheOp.before) # {}) =>
        /\ cacheOp.hit
        /\ \E i \in FreshUsed(cacheOp.before) :
            /\ \A j \in FreshUsed(cacheOp.before) : i <= j
            /\ cacheOp.blockhash = cacheOp.before[i].blockhash
        /\ entries = cacheOp.before

\* C12 witness: two used entries inserted at different times, both younger
\* than ttl, and get returned the one inserted first.
C12_Witness ==
    /\ GetDone
    /\ Len(cacheOp.before) = 2
    /\ FreshUsed(cacheOp.before) = {1, 2}
    /\ cacheOp.before[1].insertedAt < cacheOp.before[2].insertedAt
    /\ cacheOp.blockhash = cacheOp.before[1].blockhash

\* C13 (as claimed): for all cache states, a get made while an inserted
\* blockhash B is younger than ttl returns B, and a get made when B has
\* reached the age ttl is a cache miss.
C13_InsertedReturnedUntilTtl ==
    GetDone =>
        \A i \in DOMAIN cacheOp.before :
            IF Fresh(cacheOp.before[i])
            THEN cacheOp.hit /\ cacheOp.blockhash = cacheOp.before[i].blockhash
            ELSE ~cacheOp.hit

\* C13 (amended): get hits exactly when some entry is younger than ttl, the
\* age ttl itself counting as expired; an inserted blockhash B is returned
\* while it is the only entry younger than ttl, and a get when B has reached
\* the age ttl is a miss when no other entry is younger than ttl.
C13_HitIffSomeEntryYoungerThanTtl ==
    GetDone =>
        /\ cacheOp.hit <=>
               \E i \in DOMAIN cacheOp.before : Fresh(cacheOp.before[i])
        /\ \A i \in DOMAIN cacheOp.before :
               (/\ Fresh(cacheOp.before[i])
                /\ \A j \in DOMAIN cacheOp.before :
                       j # i => ~Fresh(cacheOp.before[j]))
               => cacheOp.blockhash = cacheOp.before[i].blockhash
        /\ ~cacheOp.hit => cacheOp.blockhash = NoHash /\ entries = cacheOp.before

\* C13 witness: the first entry has exactly the age ttl, the second is the
\* only one younger than ttl, and get returned the second.
C13_Witness ==
    /\ GetDone
    /\ Len(cacheOp.before) = 2
    /\ now - cacheOp.before[1].insertedAt = Ttl
    /\ Fresh(cacheOp.before[2])
    /\ cacheOp.hit
    /\ cacheOp.blockhash = cacheOp.before[2].blockhash

\* The entries younger than ttl that a set found, and whether the set of a
\* blockhash not among them came upon a full cache.
FoundYoung == SelectSeq(cacheOp.before, Fresh)
Overflowed ==
    /\ SetDone
    /\ Len(FoundYoung) = MaxSize
    /\ \A i \in DOMAIN FoundYoung : FoundYoung[i].blockhash # cacheOp.blockhash

\* C14: after any sequence of set and get the cache holds at most maxSize
\* entries, and an insert that overflows the capacity drops the oldest
\* entry and keeps the newly inserted one, at the newest position.
C14_BoundedOldestDropped ==
    /\ Len(entries) <= MaxSize
    /\ Overflowed =>
           entries = Append(Tail(FoundYoung),
                            [blockhash |-> cacheOp.blockhash,
                             insertedAt |-> now,
                             used |-> cacheOp.used])

\* C14 witness: a set of a new blockhash came upon a full cache of entries
\* younger than ttl of different ages; the oldest is gone, the new one held.
C14_Witness ==
    /\ Overflowed
    /\ FoundYoung[1].insertedAt < FoundYoung[MaxSize].insertedAt
    /\ \A i \in DOMAIN entries : entries[i].blockhash # FoundYoung[1].blockhash
    /\ entries[Len(entries)].blockhash = cacheOp.blockhash

\* The same entry before and after an operation: same blockhash, inserted
\* at the same time.
SameEntry(e, f) == e.blockhash = f.blockhash /\ e.insertedAt = f.insertedAt

C16_OneEntryPerBlockhash ==
    \A i \in DOMAIN entries, j \in DOMAIN entries :
        entries[i].blockhash = entries[j].blockhash => i = j

\* C16 witness: a send_transaction has just made its refresh set, and the
\* only entry held was inserted before this call and is younger than ttl.
\* A set always leaves its blockhash in the cache, so the refresh fetched
\* the blockhash that was already held.
C16_Witness ==
    /\ cacheEnabled
    /\ op = "send_transaction"
    /\ pc = "done"
    /\ result = "returned"
    /\ cnt.refresh = 1
    /\ cnt.set = 1
    /\ Len(entries) = 1
    /\ entries[1].insertedAt < now
    /\ Usable(entries[1], now)

\* C17: get never returns an entry that has reached the age ttl, also when
\* the entry is still held: it is passed over among the unused and among
\* the used entries, and the get leaves it as it was.
C17_ExpiredNeverReturned ==
    GetDone =>
        \A i \in DOMAIN cacheOp.before :
            ~Fresh(cacheOp.before[i]) =>
                /\ cacheOp.blockhash # cacheOp.before[i].blockhash
                /\ entries[i] = cacheOp.before[i]

\* C17 witness: an unused entry that has reached ttl was still held ahead of
\* a used entry younger than ttl, and get passed over it in both tiers and
\* returned the used one.
C17_Witness ==
    /\ GetDone
    /\ Len(cacheOp.before) = 2
    /\ ~Fresh(cacheOp.before[1])
    /\ ~cacheOp.before[1].used
    /\ Fresh(cacheOp.before[2])
    /\ cacheOp.before[2].used
    /\ cacheOp.hit
    /\ cacheOp.blockhash = cacheOp.before[2].blockhash

\* ------------------------------------------- the claims on the hand-off
\* C18: whenever send_raw_transaction has entered the poller, the target is
\* opts.preflight_commitment and the height bound is
\* opts.last_valid_block_height; with opts unset these are the client's
\* commitment and, in send_transaction, the lastValidBlockHeight of the
\* blockhash fetched before dispatch, absent when none was fetched (the
\* caller supplied the blockhash, or the cache held one); in
\* send_raw_transaction itself the height bound is then absent.
C18_HandOffFromOpts ==
    (Sending /\ state # "NONE") =>
        /\ optsArg # NoOpts =>
               /\ target = optsArg.preflight_commitment
               /\ lvbh = optsArg.last_valid_block_height
        /\ optsArg = NoOpts =>
               /\ target = commitment
               /\ lvbh = IF op = "send_transaction" /\ rbArg = NoHash
                         THEN blockhash_resp.lastValidBlockHeight
                         ELSE NoHeight
               /\ rbArg # NoHash => blockhash_resp = NoFetch

\* C18 witness: send_transaction without opts and without a blockhash on a
\* client whose commitment is not Finalized; the blockhash was fetched and
\* the poller waits on the fetched height at the client's commitment.
C18_Witness ==
    /\ op = "send_transaction"
    /\ optsArg = NoOpts
    /\ rbArg = NoHash
    /\ commitment # Finalized
    /\ blockhash_resp # NoFetch
    /\ state = "WAITING"
    /\ mode = "height"
    /\ target = commitment
    /\ lvbh = blockhash_resp.lastValidBlockHeight

\* C19: a signature-status response that carries an error together with a
\* status at or above the target commitment ends the call in ERRORED with
\* the RPC error, in both modes; it never counts as a confirmation.
C19_ErrorIsAuthoritative ==
    /\ (resp.error /\ AtOrAbove(resp.value, target)) =>
           /\ state = "ERRORED"
           /\ result = "RPCException"
           /\ pc = "done"
    /\ state = "CONFIRMED" => ~resp.error

\* C19 witness: in the wall-clock mode of a send_raw_transaction the first
\* response carries an error and a finalized status, above the target.
C19_Witness ==
    /\ op = "send_raw_transaction"
    /\ mode = "wallclock"
    /\ cnt.status = 1
    /\ resp.error
    /\ resp.value = Finalized
    /\ target # Finalized
    /\ state = "ERRORED"

\* The polling loop was left because its condition failed: a block height
\* above the bound was read, or the deadline was reached.
LoopConditionFailed ==
    \/ mode = "height" /\ current_blockheight > lvbh
    \/ mode = "wallclock" /\ now >= timeout

\* C20 (as claimed): when the loop condition fails without confirmation, the
\* call ends with the RPC error if the most recent status response carries
\* an error, and otherwise with the blockheight-expired error in the
\* height-bounded mode and the unconfirmed error in the wall-clock mode.
C20_ExhaustionOutcome ==
    (pc = "done" /\ state \notin {"NONE", "CONFIRMED"} /\ LoopConditionFailed) =>
        IF resp.error
        THEN state = "ERRORED" /\ result = "RPCException"
        ELSE IF mode = "height"
        THEN /\ state = "EXPIRED"
             /\ result = "TransactionExpiredBlockheightExceededError"
        ELSE /\ state = "TIMED_OUT"
             /\ result = "UnconfirmedTxError"

\* ------------------------------------------ the claims on the poller (2)
\* The height-bounded loop has made as many polls as the model follows.
PollBoundReached ==
    mode = "height" /\ pc = "ct_status" /\ cnt.status = MaxPolls

\* C21 (as claimed): when every request is answered and time advances, every
\* confirm_transaction call that has started polling comes to exactly one
\* of the terminal states CONFIRMED, EXPIRED, TIMED_OUT, ERRORED, in both
\* modes (a height-bounded call is followed up to MaxPolls polls).
C21_EventuallyOneTerminalState ==
    (state = "WAITING") ~> (PollerEnded \/ PollBoundReached)

\* ------------------------------------------ the claims on the submitter (2)
\* send_transaction has missed the cache.
MissedCache == op = "send_transaction" /\ got.called /\ ~got.hit

C23_SharedCacheInvariants ==
    /\ \A i \in DOMAIN entries, j \in DOMAIN entries :
           entries[i].blockhash = entries[j].blockhash => i = j
    /\ \A i \in DOMAIN entries, j \in DOMAIN entries :
           i < j => entries[i].insertedAt <= entries[j].insertedAt
    /\ Len(entries) <= MaxSize

\* C23 witness: both callers are in the middle of a send_transaction, one
\* about to refresh and one about to dispatch, on a full cache whose
\* entries were inserted at different times.
C23_Witness ==
    /\ callerPc[1] = "refresh"
    /\ callerPc[2] = "dispatch"
    /\ Len(entries) = MaxSize
    /\ entries[1].insertedAt < entries[MaxSize].insertedAt
    /\ entries[1].used
    /\ Usable(entries[1], now)

\* C24: no step of confirm_transaction or of send_raw_transaction changes
\* the cache, whatever the mode and the outcome, and a send_transaction on
\* a client without a cache makes no cache get and no cache set.
C24_OnlySubmitterMutatesCache ==
    /\ [][op' \in {"confirm_transaction", "send_raw_transaction"}
              => entries' = entries]_vars
    /\ [](op = "send_transaction" /\ ~cacheEnabled =>
              entries = << >> /\ cnt.get = 0 /\ cnt.set = 0 /\ ~got.called)

\* C24 witness: a confirm_transaction has timed out on a client whose cache
\* holds an unused entry left by an earlier send_transaction.
C24_Witness ==
    /\ cacheEnabled
    /\ op = "confirm_transaction"
    /\ pc = "done"
    /\ state = "TIMED_OUT"
    /\ Len(entries) = 1
    /\ ~entries[1].used

\* ------------------------------------------------ the claims on the fee
\* C25: get_fee_for_message handed a Transaction that was not compiled ends
\* at once with the uncompiled-transaction error, and no request of that
\* call is made, before or after.
C25_UncompiledRejected ==
    (op = "get_fee_for_message" /\ message = "Transaction") =>
        /\ pc = "done"
        /\ result = "TransactionUncompiledError"
        /\ cnt = ZeroCount

\* C25 witness: the second call of the client is a get_fee_for_message
\* with a Transaction, and it has been refused.
C25_Witness ==
    /\ op = "get_fee_for_message"
    /\ message = "Transaction"
    /\ calls = 2
    /\ result = "TransactionUncompiledError"

\* ------------------------------------------ the claims on the poller (3)
\* The first block height read in a height-bounded call is above the bound.
FirstReadingAbove ==
    /\ mode = "height"
    /\ cnt.height = 1
    /\ cnt.status = 0
    /\ current_blockheight > lvbh

\* C26 (as claimed): when the first block-height reading of a height-bounded
\* call is already above lastValidBlockHeight, the call makes no
\* signature-status query and ends with the blockheight-expired error.
C26_FirstReadingAboveExpires ==
    FirstReadingAbove =>
        /\ pc = "done"
        /\ state = "EXPIRED"
        /\ result = "TransactionExpiredBlockheightExceededError"

\* C27: a height-bounded call ends EXPIRED only with a block-height reading
\* strictly above lastValidBlockHeight; while the last reading is at or
\* below it, the bound included, the call is not ended by the height, and
\* after its sleep the next status poll is due.
C27_ExpiredOnlyAboveBound ==
    /\ state = "EXPIRED" => mode = "height" /\ current_blockheight > lvbh
    /\ (mode = "height" /\ current_blockheight # NoHeight
            /\ current_blockheight <= lvbh) =>
           /\ state \in {"WAITING", "CONFIRMED", "ERRORED", "CRASHED"}
           /\ result \notin {"TransactionExpiredBlockheightExceededError",
                              "UnboundLocalError"}
           /\ exceedSnap.taken = FALSE

\* C27 witness: the block height read again after the first poll is exactly
\* lastValidBlockHeight, and a second status poll has been made after it.
C27_Witness ==
    /\ mode = "height"
    /\ cnt.height = 2
    /\ cnt.sleep = 1
    /\ cnt.status = 2
    /\ current_blockheight = lvbh

\* C28: a call that went through the poller is CONFIRMED only if its last
\* signature-status response carries no error and a status, not null, at or
\* above the target; confirm_transaction then returns that response.  A
\* null status or a status below the target never ends the call CONFIRMED.
C28_NoFalseConfirmation ==
    state = "CONFIRMED" =>
        /\ cnt.status >= 1
        /\ ~resp.error
        /\ resp.value # "null"
        /\ AtOrAbove(resp.value, target)
        /\ reached = 1
        /\ (op = "confirm_transaction" /\ pc = "done") =>
               result = "returned" /\ retval = "resp"

\* C28 witness: a wall-clock confirm_transaction has returned its third
\* status response, the first at the target after two that were not.
C28_Witness ==
    /\ op = "confirm_transaction"
    /\ mode = "wallclock"
    /\ state = "CONFIRMED"
    /\ pc = "done"
    /\ retval = "resp"
    /\ cnt.status = 3
    /\ below = 2
    /\ resp.value = target

\* C29: a height-bounded call never ends TIMED_OUT, with the unconfirmed
\* error; a wall-clock call never ends EXPIRED, with the blockheight-expired
\* error, and makes no block-height query.
C29_ModesDisjoint ==
    /\ mode = "height" =>
           state # "TIMED_OUT" /\ result # "UnconfirmedTxError"
    /\ mode = "wallclock" =>
           /\ state # "EXPIRED"
           /\ result # "TransactionExpiredBlockheightExceededError"
           /\ cnt.height = 0
           /\ current_blockheight = NoHeight
    /\ state \in {"EXPIRED", "TIMED_OUT"} => mode \in {"height", "wallclock"}

\* C29 witness: a send_raw_transaction without a height bound has timed out
\* after three status polls and no block-height query.
C29_Witness ==
    /\ op = "send_raw_transaction"
    /\ mode = "wallclock"
    /\ state = "TIMED_OUT"
    /\ result = "UnconfirmedTxError"
    /\ cnt.status = 3
    /\ cnt.height = 0

\* C30: in the height-bounded mode the deadline plays no part: after every
\* sleep with the last block-height reading at or below
\* lastValidBlockHeight the next status poll is due, whatever the time
\* elapsed, and the call is still waiting when it comes to that poll.
C30_HeightModeIgnoresDeadline ==
    /\ [][(mode = "height" /\ pc = "ct_sleep"
               /\ current_blockheight <= lvbh)
              => (pc' = "ct_status" /\ state' = "WAITING"
                     /\ result' = "none")]_vars
    /\ [](mode = "height" /\ pc = "ct_status" =>
              state = "WAITING" /\ current_blockheight <= lvbh)

\* C30 witness: a height-bounded call has made its third status poll after
\* the 30 s deadline had passed, and goes on waiting.
C30_Witness ==
    /\ mode = "height"
    /\ cnt.status = 3
    /\ now - MaxLatency >= timeout
    /\ pc = "ct_height"
    /\ state = "WAITING"

\* ------------------------------------------ the claims on the poller (4)
\* C31: in the height-bounded mode each status query comes after exactly
\* one block-height reading made since the previous status query (or since
\* the start of the call), and that reading is at or below
\* lastValidBlockHeight; an iteration is the status query, then the
\* block-height re-query, then the sleep, then the loop test on the
\* re-queried height.
C31_OneReadingBeforeEachPoll ==
    mode = "height" =>
        /\ cnt.status <= cnt.height
        /\ cnt.height <= cnt.status + 1
        /\ pc = "ct_status" =>
               /\ cnt.height = cnt.status + 1
               /\ cnt.sleep = cnt.status
               /\ current_blockheight # NoHeight
               /\ current_blockheight <= lvbh
        /\ pc = "ct_height" =>
               /\ cnt.height = cnt.status
               /\ cnt.sleep = cnt.status - 1
        /\ pc = "ct_sleep" =>
               /\ cnt.height = cnt.status + 1
               /\ cnt.sleep = cnt.status - 1
        /\ state = "EXPIRED" =>
               /\ cnt.height = cnt.status + 1
               /\ cnt.sleep = cnt.status
               /\ current_blockheight > lvbh

\* C31 witness: the third status query of a height-bounded call is due,
\* after the first reading, two re-queries and two sleeps.
C31_Witness ==
    /\ mode = "height"
    /\ pc = "ct_status"
    /\ cnt.status = 2
    /\ cnt.height = 3
    /\ cnt.sleep = 2
    /\ current_blockheight <= lvbh

\* C32 (as claimed): in the height-bounded mode a block-height response that
\* carries a request-level error ends the call with the RPC error, ERRORED,
\* and no query follows it.
C32_HeightErrorSurfaced ==
    heightErr =>
        /\ pc = "done"
        /\ state = "ERRORED"
        /\ result = "RPCException"

\* ------------------------------------------ the claims on the submitter (3)
\* send_transaction without opts whose blockhash came from the cache, and
\* the same with a blockhash supplied by the caller.
CacheHitNoOpts ==
    op = "send_transaction" /\ optsArg = NoOpts /\ got.called /\ got.hit
CallerHashNoOpts ==
    op = "send_transaction" /\ optsArg = NoOpts /\ rbArg # NoHash

\* C33: a send_transaction without opts whose blockhash came from a cache
\* hit records no lastValidBlockHeight, so its confirmation runs in the
\* wall-clock mode, without block-height query and never EXPIRED, exactly
\* as with a blockhash supplied by the caller.
C33_CacheHitRunsWallClock ==
    (CacheHitNoOpts \/ CallerHashNoOpts) =>
        /\ st_lvbh = NoHeight
        /\ blockhash_resp = NoFetch
        /\ opts.last_valid_block_height = NoHeight
        /\ cnt.height = 0
        /\ state # "NONE" =>
               /\ mode = "wallclock"
               /\ lvbh = NoHeight
               /\ state \in {"WAITING", "CONFIRMED", "TIMED_OUT", "ERRORED"}

\* C33 witness: a send_transaction without opts took its blockhash from the
\* cache and its confirmation has timed out, no block height having been
\* read.
C33_Witness ==
    /\ CacheHitNoOpts
    /\ rbArg = NoHash
    /\ state = "TIMED_OUT"
    /\ result = "UnconfirmedTxError"
    /\ cnt.height = 0

\* C34: when the caller passes opts to send_transaction, the opts used are
\* the caller's as given and the poller receives their
\* last_valid_block_height, not the height fetched with the blockhash; with
\* caller opts that carry no height the confirmation runs in the wall-clock
\* mode even though a height was fetched.
C34_CallerOptsOverrideCapturedHeight ==
    (op = "send_transaction" /\ optsArg # NoOpts) =>
        /\ opts # NoOpts => opts = optsArg
        /\ state # "NONE" =>
               /\ lvbh = optsArg.last_valid_block_height
               /\ target = optsArg.preflight_commitment
               /\ optsArg.last_valid_block_height = NoHeight =>
                      mode = "wallclock" /\ cnt.height = 0

\* C34 witness: the blockhash and its height were fetched, the caller's
\* opts carry no height, and the confirmation waits in the wall-clock mode.
C34_Witness ==
    /\ op = "send_transaction"
    /\ optsArg # NoOpts
    /\ optsArg.last_valid_block_height = NoHeight
    /\ st_lvbh # NoHeight
    /\ blockhash_resp.lastValidBlockHeight = st_lvbh
    /\ state = "WAITING"
    /\ mode = "wallclock"
    /\ cnt.status = 1

\* ---- C35 ----

\* A send_transaction call that has returned normally.
SentAndReturned ==
    /\ op = "send_transaction"
    /\ pc = "done"
    /\ result = "returned"

\* C35: a send_transaction call that returns normally has, with the cache
\* enabled, made exactly one latest-blockhash fetch after the dispatch and
\* handed its result to the cache as unused, whichever source supplied the
\* embedded blockhash and also when confirmation is skipped; with the cache
\* disabled it has made none.  The refresh is made only once
\* send_raw_transaction, its confirmation included, has finished.
C35_RefreshOnceAfterDispatch ==
    /\ SentAndReturned =>
           IF cacheEnabled
           THEN /\ cnt.refresh = 1
                /\ cnt.fetch = 1 + (IF blockhash_resp = NoFetch THEN 0 ELSE 1)
                /\ cacheOp.kind = "set"
                /\ ~cacheOp.used
                /\ entries = CacheSet(cacheOp.before, cacheOp.blockhash,
                                      FALSE, now)
                /\ \E i \in 1 .. Len(entries) :
                       entries[i].blockhash = cacheOp.blockhash
           ELSE /\ cnt.refresh = 0
                /\ cnt.fetch = 1 - (IF rbArg = NoHash THEN 0 ELSE 1)
    /\ (pc = "st_refresh" \/ cnt.refresh > 0) =>
           /\ op = "send_transaction"
           /\ cacheEnabled
           /\ cnt.send = 1
           /\ send_resp = "ok"
           /\ IF SkipConfirmation(opts)
              THEN state = "NONE" /\ cnt.status = 0
              ELSE state = "CONFIRMED"

\* A call with a blockhash of the caller's and confirmation skipped has
\* returned after refreshing the cache with a blockhash it did not hold.
C35_Witness ==
    /\ SentAndReturned
    /\ cacheEnabled
    /\ rbArg # NoHash
    /\ SkipConfirmation(opts)
    /\ cnt.refresh = 1
    /\ \A i \in 1 .. Len(cacheOp.before) :
           cacheOp.before[i].blockhash # cacheOp.blockhash
    /\ ~entries[Len(entries)].used

\* ---- C36 ----

\* C36: when the send request answers with a request-level error the call
\* ends with that error, having made no signature-status and no
\* block-height query; send_transaction makes no cache refresh, and the
\* cache stays as the blockhash selection left it.
C36_SendErrorPropagates ==
    [][send_resp' = "error" =>
          /\ pc' = "done"
          /\ result' = "RPCException"
          /\ retval' = "none"
          /\ state' = "NONE"
          /\ cnt'.send = 1
          /\ cnt'.status = 0
          /\ cnt'.height = 0
          /\ cnt'.sleep = 0
          /\ cnt'.refresh = 0
          /\ pc = "srt_request" =>
                 /\ entries' = entries
                 /\ cnt'.fetch = cnt.fetch
                 /\ cnt'.set = cnt.set
                 /\ cnt'.get = cnt.get]_vars

\* A send_transaction call with the cache enabled, confirmation wanted and
\* a blockhash taken from the cache has ended with the error of the send
\* request.
C36_Witness ==
    /\ op = "send_transaction"
    /\ cacheEnabled
    /\ send_resp = "error"
    /\ result = "RPCException"
    /\ ~SkipConfirmation(opts)
    /\ cnt.get = 1
    /\ blockhash_resp = NoFetch
    /\ Len(entries) > 0

\* ---- C37 ----

\* C37: a send method that returns hands back the response of the send
\* request, the one that carries the signature, and not the last
\* signature-status response of the confirmation; the value is the same
\* with and without confirmation.
C37_ReturnsSendResponse ==
    (Sending /\ pc = "done" /\ result = "returned") =>
        /\ retval = "send_resp"
        /\ send_resp = "ok"
        /\ ~SkipConfirmation(opts) => state = "CONFIRMED" /\ resp # Unbound

\* send_raw_transaction has returned after a confirmation that took two
\* status polls.
C37_Witness ==
    /\ op = "send_raw_transaction"
    /\ pc = "done"
    /\ result = "returned"
    /\ retval = "send_resp"
    /\ ~SkipConfirmation(opts)
    /\ state = "CONFIRMED"
    /\ cnt.status = 2

\* ---- C38 ----

\* C38: the outcome of confirm_transaction depends on the commitment level
\* of the polled statuses and not on their err field: a second run given
\* the same responses but for the err fields stands in the same poller
\* state after the same number of polls, and a status at or above the
\* target ends the call CONFIRMED also when its err field reports a failed
\* transaction.
C38_OutcomeIgnoresErrField ==
    /\ twin.state = state
    /\ twin.polls = cnt.status
    /\ (resp.err /\ ~resp.error /\ AtOrAbove(resp.value, target)) =>
           state = "CONFIRMED" /\ result = "returned"

\* The second poll of a call is answered with a status at the target whose
\* err field reports a failed transaction, where the second run saw the
\* same status without it: both calls have ended CONFIRMED.
C38_Witness ==
    /\ op = "confirm_transaction"
    /\ pc = "done"
    /\ state = "CONFIRMED"
    /\ twin.state = "CONFIRMED"
    /\ cnt.status = 2
    /\ resp.err
    /\ ~twin.err

\* ---- C39 ----

\* The last operation was a set of a blockhash the cache did not hold
\* younger than ttl.
InsertedNew ==
    /\ SetDone
    /\ \A i \in DOMAIN FoundYoung : FoundYoung[i].blockhash # cacheOp.blockhash

\* The entries held that were held before the last operation.
KeptEntries ==
    IF InsertedNew THEN SubSeq(entries, 1, Len(entries) - 1) ELSE entries

\* C39: in every cache state the entries are ordered oldest to newest by
\* insertion time; a set puts a newly inserted entry at the newest
\* position; the entries an operation keeps are the ones it found from some
\* position on, in the order it found them, so that eviction and purge
\* remove from the oldest end only, and what is removed was expired or was
\* dropped on overflow.
C39_OrderedOldestToNewest ==
    /\ \A i \in DOMAIN entries, j \in DOMAIN entries :
           i < j => entries[i].insertedAt <= entries[j].insertedAt
    /\ InsertedNew =>
           /\ Len(entries) >= 1
           /\ entries[Len(entries)].blockhash = cacheOp.blockhash
           /\ entries[Len(entries)].insertedAt = now
    /\ cacheOp.kind # "none" =>
           LET k == Len(cacheOp.before) - Len(KeptEntries)
           IN  /\ k >= 0
               /\ \A i \in DOMAIN KeptEntries :
                      /\ KeptEntries[i].blockhash = cacheOp.before[k + i].blockhash
                      /\ cacheOp.kind # "tick" =>
                             KeptEntries[i].insertedAt
                                 = cacheOp.before[k + i].insertedAt
               /\ \A i \in 1 .. k :
                      \/ ~Fresh(cacheOp.before[i])
                      \/ InsertedNew /\ Len(entries) = MaxSize
               /\ ~SetDone => k = 0

\* A set of a new blockhash found the cache full with its oldest entry
\* expired and its newest one not: the expired one is gone, the other is
\* kept at the oldest position and the new entry is the newest.
C39_Witness ==
    /\ InsertedNew
    /\ Len(cacheOp.before) = MaxSize
    /\ ~Fresh(cacheOp.before[1])
    /\ Fresh(cacheOp.before[MaxSize])
    /\ Len(entries) = 2
    /\ SameEntry(entries[1], cacheOp.before[MaxSize])
    /\ entries[1].insertedAt < entries[2].insertedAt
    /\ entries[2].blockhash = cacheOp.blockhash

=============================================================================
